---- MODULE Spec2Model ----
(***************************************************************************)
(* The authenticated request gateway of the social media manager front    *)
(* end (the axios client with its request and response interceptors), the *)
(* credential storage it shares with the auth store, and the auth store's *)
(* session state.                                                          *)
(*                                                                         *)
(* Granularity.  JavaScript runs one task at a time.  A handler runs from  *)
(* the arrival of a network response to its next await without any other  *)
(* task in between, and a promise continuation (a microtask) runs before   *)
(* the next task.  Each action below is therefore one such run: from a     *)
(* user event or a response to the next network call or to the settling    *)
(* of the caller's promise.                                                *)
(***************************************************************************)
EXTENDS Integers, Sequences, FiniteSets, TLC

\* ---------------------------------------------------------------- bounds
\* Number of request slots that can be in flight at the same time.
MaxRequests == 2
\* Ceiling of the per-request counters of dispatches and renewal calls (they
\* stop counting there).
CounterCap == 3
\* Number of distinct credential pairs the backend can issue.
NumPairs == 2

Requests == 1..MaxRequests

\* ---------------------------------------------------------------- values
\* localStorage.getItem answers null for a key that is not stored.
Null == "null"

\* The k-th pair the backend issues: access_token "Ak", refresh_token "Rk".
Digits == <<"1", "2", "3", "4", "5", "6", "7", "8", "9">>
AccessToken(k) == "A" \o Digits[k]
RefreshToken(k) == "R" \o Digits[k]
TokenResponse(k) == [access_token |-> AccessToken(k), refresh_token |-> RefreshToken(k)]
TokenResponses == {TokenResponse(k) : k \in 1..NumPairs}

\* What the storage holds when the page loads: it is durable and outlives the
\* page, so either key may or may not be there.
StoredAccess == {Null, AccessToken(1)}
StoredRefresh == {Null, RefreshToken(1)}

\* The outcome of a network call: an HTTP status, or 0 when no response came
\* back at all (error.response is undefined).
NoResponse == 0
Statuses == {200, 401, 500, NoResponse}
FailureStatuses == Statuses \ {200}

\* The two kinds of resource a request goes to: the profile fetch of
\* AppContent, and any other resource call.
Urls == {"/auth/me", "/posts/"}

VARIABLES
    localStorage,     \* the credential storage: key -> value or Null
    requests,         \* per request slot: its position and its descriptor
    location,         \* "app", or "/login" once window.location.href was set
    isAuthenticated,  \* auth store: the authenticated flag
    user,             \* auth store: the user profile, or Null
    usedRefresh,      \* rotating backend: the refresh credentials already exchanged
    call,             \* the last direct call of an auth store function
    toasts,           \* toast store: the list of toasts
    timers,           \* ids of the toasts whose auto-remove timer is pending
    nextId,           \* number of toasts created so far, plus one
    asked,            \* router: the path last asked for
    route,            \* router: the current path
    screen,           \* router: the element rendered for the current path
    compose,          \* Compose page: its state hooks and its mutation
    bulk,             \* Bulk Schedule page: its state hooks and its two mutations
    strategy,         \* Strategy page: its state hooks and its mutation
    bio,              \* Link-in-Bio page: the pages query, its state hooks and its save timer
    reorder           \* feed planner: the reorder bar

\* The variables of the gateway and the auth store.
session == <<localStorage, requests, location, isAuthenticated, user>>
\* The variables of the toast store.
toastVars == <<toasts, timers, nextId>>

\* The variables of the router and of the pages.
router == <<asked, route, screen>>
pages == <<router, compose, bulk, strategy, bio, reorder>>
\* What the actions of the router, and of each page, leave alone among these.
notRouter == <<compose, bulk, strategy, bio, reorder>>
notCompose == <<router, bulk, strategy, bio, reorder>>
notBulk == <<router, compose, strategy, bio, reorder>>
notStrategy == <<router, compose, bulk, bio, reorder>>
notBio == <<router, compose, bulk, strategy, reorder>>
notReorder == <<router, compose, bulk, strategy, bio>>

vars == <<localStorage, requests, location, isAuthenticated, user,
          usedRefresh, call, toasts, timers, nextId,
          asked, route, screen, compose, bulk, strategy, bio, reorder>>

\* ------------------------------------------------------------- storage
getItem(ls, key) == ls[key]
setItem(ls, key, value) == [ls EXCEPT ![key] = value]
\* A removeItem that removes nothing.
removeItem_Nothing(ls, key) == ls

removeItem(ls, key) == [ls EXCEPT ![key] = Null]

\* JavaScript truthiness of a value read from storage: `if (token)`.
Truthy(v) == v # Null /\ v # ""

\* The template literal `Bearer ${token}`.
Bearer(token) == "Bearer " \o token

\* ------------------------------------------------------- request records
\* A request descriptor (the axios config): where it goes, its Authorization
\* header (Null when it has none) and the one-shot _retry marker.
NewConfig(url) == [url |-> url, Authorization |-> Null, _retry |-> FALSE]
NoConfig == NewConfig("")
NoData == [access_token |-> Null, refresh_token |-> Null]

\* What the caller's promise has settled to: the response or the error of
\* which call ("request": the first attempt, "retry": the re-sent request,
\* "renewal": the renewal call), and its status.
Pending == [settled |-> "pending", of |-> "none", status |-> NoResponse]
Resolved(of, status) == [settled |-> "resolved", of |-> of, status |-> status]
Rejected(of, status) == [settled |-> "rejected", of |-> of, status |-> status]

\* The handler's `error` argument: the failed call and its status.
Error(of, status) == [of |-> of, status |-> status]
NoError == Error("none", NoResponse)

\* A slot: pc is the request's position ("idle", "sent": first attempt in
\* flight, "renewing": renewal call in flight, "resent": retry in flight,
\* "done": the caller's promise has settled); error is the error the handler
\* holds while it awaits the renewal call; sends and renewals count the
\* dispatches of the request and the renewal calls made on its behalf;
\* navigated records that its handler set window.location.href.
IdleRequest ==
    [pc |-> "idle", config |-> NoConfig, error |-> NoError,
     refreshToken |-> Null, resp |-> NoData,
     sends |-> 0, renewals |-> 0, navigated |-> FALSE, outcome |-> Pending]

Inc(n) == IF n < CounterCap THEN n + 1 ELSE n

\* The slot of a request whose promise has settled.  The descriptor and the
\* handler's locals are unreachable from then on; the slot keeps the history
\* of the request: its counters, whether it navigated, and the outcome.
Settled(req, navigated, outcome) ==
    [IdleRequest EXCEPT !.pc = "done",
                        !.sends = req.sends,
                        !.renewals = req.renewals,
                        !.navigated = navigated,
                        !.outcome = outcome]

\* Which call an in-flight attempt is: the first attempt or the retry.
AttemptOf(req) == IF req.pc = "resent" THEN "retry" ELSE "request"

\* ------------------------------------------------------------ auth store
\* The store's state when the page loads.
InitialAuthenticated(ls) == Truthy(getItem(ls, "access_token"))

login(access, refresh) ==
    /\ localStorage' = setItem(setItem(localStorage, "access_token", access),
                               "refresh_token", refresh)
    /\ isAuthenticated' = TRUE
    /\ UNCHANGED user

\* A setUser that also drops the stored credentials.
setUser_DroppingTokens(u) ==
    /\ user' = u
    /\ isAuthenticated' = TRUE
    /\ localStorage' = [access_token |-> Null, refresh_token |-> Null]

setUser(u) ==
    /\ user' = u
    /\ isAuthenticated' = TRUE
    /\ UNCHANGED localStorage

logout ==
    /\ localStorage' = removeItem(removeItem(localStorage, "access_token"),
                                  "refresh_token")
    /\ user' = Null
    /\ isAuthenticated' = FALSE

\* ------------------------------------------------- the gateway (client)
\* The request interceptor without its body: the token is never attached.
RequestInterceptor_NoToken(config, ls) == config

\* The request interceptor reading the other storage key.
RequestInterceptor_RefreshKey(config, ls) ==
    LET token == ls["refresh_token"]
    IN  IF token # "null" /\ token # ""
        THEN [config EXCEPT !.Authorization = "Bearer " \o token]
        ELSE config

\* api.interceptors.request.use: attach the stored access credential.
RequestInterceptor(config, ls) ==
    LET token == getItem(ls, "access_token")
    IN  IF Truthy(token)
        THEN [config EXCEPT !.Authorization = Bearer(token)]
        ELSE config

\* The condition without its status test: any failed response renews.
ShouldRenew_AnyFailure(status, original) == ~original._retry

\* The condition without its marker test: every 401 renews.
ShouldRenew_IgnoringRetry(status, original) == status = 401

\* A single-flight condition: no renewal while another one is in flight.
ShouldRenew_SingleFlight(status, original) ==
    /\ status = 401
    /\ ~original._retry
    /\ \A q \in Requests : requests[q].pc # "renewing"

\* error.response?.status === 401 && !original._retry
ShouldRenew(status, original) == status = 401 /\ ~original._retry

\* The handler without the assignment of the marker.
MarkRetried_Forgotten(original) == original

\* original._retry = true
MarkRetried(original) == [original EXCEPT !._retry = TRUE]

\* Only the refresh credential is stored.
PersistTokens_RefreshOnly(ls, data) == setItem(ls, "refresh_token", data.refresh_token)

\* Only the access credential is stored.
PersistTokens_AccessOnly(ls, data) == setItem(ls, "access_token", data.access_token)

\* The two setItem calls after a successful renewal.
PersistTokens(ls, data) ==
    setItem(setItem(ls, "access_token", data.access_token),
            "refresh_token", data.refresh_token)

\* The catch block without its removeItem calls.
ClearTokens_Nothing(ls) == ls

\* The two removeItem calls of the catch block.
ClearTokens(ls) == removeItem(removeItem(ls, "access_token"), "refresh_token")

\* original.headers.Authorization = `Bearer ${resp.data.access_token}`
AttachRenewed(original, data) ==
    [original EXCEPT !.Authorization = Bearer(data.access_token)]

\* What the handler leaves in storage when it finds no refresh credential
\* (the else branch: it only sets window.location.href).
StorageOnMissingRefresh(ls) == ls

\* The handler rejecting with the error of the renewal call instead.
RenewalFailureOutcome_RenewalError(error, renewalStatus) ==
    Rejected("renewal", renewalStatus)

\* The error the handler's final `return Promise.reject(error)` rejects with
\* after the renewal call failed: `error` is still the handler's argument.
RenewalFailureOutcome(error, renewalStatus) == Rejected(error.of, error.status)

\* A caller sends a request through api: the request interceptor runs, then
\* the request is on the wire.  The profile fetch is started by AppContent's
\* effect, only while the session is authenticated.
Dispatch(r, url) ==
    /\ requests[r].pc = "idle"
    /\ url = "/auth/me" => isAuthenticated
    /\ requests' = [requests EXCEPT ![r] =
          [IdleRequest EXCEPT !.pc = "sent",
                              !.config = RequestInterceptor(NewConfig(url), localStorage),
                              !.sends = 1]]
    /\ UNCHANGED <<localStorage, location, isAuthenticated, user>>
    /\ UNCHANGED <<usedRefresh, call, toastVars>>
    /\ UNCHANGED pages

\* (response) => response.  The caller of the profile fetch then stores the
\* profile: getMe().then(setUser).
ResponseFulfilled(r) ==
    /\ requests[r].pc \in {"sent", "resent"}
    /\ requests' = [requests EXCEPT ![r] =
          Settled(requests[r], FALSE, Resolved(AttemptOf(requests[r]), 200))]
    /\ IF requests[r].config.url = "/auth/me"
       THEN setUser("profile")
       ELSE UNCHANGED <<isAuthenticated, user, localStorage>>
    /\ UNCHANGED location
    /\ UNCHANGED <<usedRefresh, call, toastVars>>
    /\ UNCHANGED pages

\* async (error) => { ... }: the handler from the failed response to its
\* await of the renewal call, or to its return.
ResponseRejected(r, status) ==
    LET req == requests[r]
        original == req.config
        refreshToken == getItem(localStorage, "refresh_token")
    IN  /\ req.pc \in {"sent", "resent"}
        /\ status \in FailureStatuses
        /\ IF ShouldRenew(status, original)
           THEN IF Truthy(refreshToken)
                THEN \* axios.post('/api/v1/auth/refresh', {refresh_token})
                     /\ requests' = [requests EXCEPT ![r] =
                           [req EXCEPT !.pc = "renewing",
                                       !.config = MarkRetried(original),
                                       !.error = Error(AttemptOf(req), status),
                                       !.refreshToken = refreshToken,
                                       !.renewals = Inc(req.renewals)]]
                     /\ UNCHANGED <<localStorage, location>>
                ELSE \* window.location.href = '/login'; Promise.reject(error)
                     /\ requests' = [requests EXCEPT ![r] =
                           Settled(req, TRUE, Rejected(AttemptOf(req), status))]
                     /\ localStorage' = StorageOnMissingRefresh(localStorage)
                     /\ location' = "/login"
           ELSE \* Promise.reject(error)
                /\ requests' = [requests EXCEPT ![r] =
                      Settled(req, FALSE, Rejected(AttemptOf(req), status))]
                /\ UNCHANGED <<localStorage, location>>
        /\ UNCHANGED <<isAuthenticated, user>>
        /\ UNCHANGED <<usedRefresh, call, toastVars>>
        /\ UNCHANGED pages

\* The renewal call succeeded: persist the new pair, attach the new access
\* credential and re-dispatch the original through api (its request
\* interceptor runs again before the request is on the wire).  The handler
\* reads its `error` and `refreshToken` no more; the slot drops them.
Renewed(r, data) ==
    LET req == requests[r]
        stored == PersistTokens(localStorage, data)
    IN  /\ req.pc = "renewing"
        /\ data \in TokenResponses
        /\ localStorage' = stored
        /\ requests' = [requests EXCEPT ![r] =
              [req EXCEPT !.pc = "resent",
                          !.error = NoError,
                          !.refreshToken = Null,
                          !.resp = data,
                          !.config = RequestInterceptor(AttachRenewed(req.config, data), stored),
                          !.sends = Inc(req.sends)]]
        /\ UNCHANGED <<location, isAuthenticated, user>>
        /\ UNCHANGED <<call, toastVars>>
        /\ UNCHANGED pages

\* The renewal endpoint answers 2xx with a pair (a backend that keeps no
\* record of the refresh credentials it has exchanged).
RenewalFulfilled(r, data) ==
    /\ Renewed(r, data)
    /\ UNCHANGED usedRefresh

\* The renewal call failed (any non-2xx status, or no response): the catch
\* block, then the handler's final Promise.reject(error).
RenewalRejected(r, status) ==
    LET req == requests[r]
    IN  /\ req.pc = "renewing"
        /\ status \in FailureStatuses
        /\ localStorage' = ClearTokens(localStorage)
        /\ location' = "/login"
        /\ requests' = [requests EXCEPT ![r] =
              Settled(req, TRUE, RenewalFailureOutcome(req.error, status))]
        /\ UNCHANGED <<isAuthenticated, user>>
        /\ UNCHANGED <<usedRefresh, call, toastVars>>
        /\ UNCHANGED pages

\* ------------------------------------------- a backend that rotates
\* The renewal endpoint of a backend on which each refresh credential can be
\* exchanged once.  The session starts from the first pair, so the pair the
\* backend issues at its k-th exchange is the (k+1)-th.
NextPair == TokenResponse(Cardinality(usedRefresh) + 2)

\* The renewal call presents a refresh credential not exchanged before: the
\* backend retires it and answers with the next pair.
RotatingRenewalFulfilled(r) ==
    /\ requests[r].pc = "renewing"
    /\ requests[r].refreshToken \notin usedRefresh
    /\ Cardinality(usedRefresh) + 2 <= NumPairs
    /\ Renewed(r, NextPair)
    /\ usedRefresh' = usedRefresh \cup {requests[r].refreshToken}

\* The renewal call presents a refresh credential already exchanged: the
\* backend answers 401.
RotatingRenewalRejected(r) ==
    /\ requests[r].pc = "renewing"
    /\ requests[r].refreshToken \in usedRefresh
    /\ RenewalRejected(r, 401)

\* The user signs in: the backend issues a pair and the store keeps it.
Login(data) ==
    /\ data \in TokenResponses
    /\ login(data.access_token, data.refresh_token)
    /\ UNCHANGED <<requests, location>>
    /\ UNCHANGED <<usedRefresh, call, toastVars>>
    /\ UNCHANGED pages

\* handleLogout of the main layout, which is rendered only while the session
\* is authenticated.
Logout ==
    /\ isAuthenticated
    /\ logout
    /\ UNCHANGED <<requests, location>>
    /\ UNCHANGED <<usedRefresh, call, toastVars>>
    /\ UNCHANGED pages

\* The navigation started by window.location.href = '/login' completes: the
\* page is loaded afresh, its in-flight requests are gone and the store
\* starts from what storage holds.
Reload ==
    /\ location = "/login"
    /\ location' = "app"
    /\ requests' = [r \in Requests |-> IdleRequest]
    /\ isAuthenticated' = InitialAuthenticated(localStorage)
    /\ user' = Null
    /\ UNCHANGED localStorage
    /\ UNCHANGED <<usedRefresh, call, toastVars>>
    /\ UNCHANGED pages

\* ------------------------------------------ the auth store, called directly
\* The token strings and the profiles the store functions are called with.
StoreTokens ==
    {""} \cup {AccessToken(k) : k \in 1..NumPairs}
         \cup {RefreshToken(k) : k \in 1..NumPairs}
Users == {"alice", "bob"}

\* The record of a direct call: which function, with which arguments, and
\* whether the call before it was of the same function.
Called(name, access, refresh, u) ==
    [name |-> name, access |-> access, refresh |-> refresh, user |-> u,
     again |-> call.name = name]

\* useAuthStore.getState().login(access, refresh)
CallLogin(access, refresh) ==
    /\ login(access, refresh)
    /\ call' = Called("login", access, refresh, Null)
    /\ UNCHANGED <<requests, location, usedRefresh, toastVars>>
    /\ UNCHANGED pages

\* useAuthStore.getState().setUser(u)
CallSetUser(u) ==
    /\ setUser(u)
    /\ call' = Called("setUser", Null, Null, u)
    /\ UNCHANGED <<requests, location, usedRefresh, toastVars>>
    /\ UNCHANGED pages

\* useAuthStore.getState().logout()
CallLogout ==
    /\ logout
    /\ call' = Called("logout", Null, Null, Null)
    /\ UNCHANGED <<requests, location, usedRefresh, toastVars>>
    /\ UNCHANGED pages

\* ------------------------------------------------------- the toast store
MaxToasts == 3
ToastIds == 1..MaxToasts

\* An argument left out of a call.
Undefined == -1

DefaultDuration == 5000
ErrorDuration == 8000

Messages == {"saved", "failed"}
ToastTypes == {"success", "error", "warning", "info"}
\* The durations callers pass explicitly.
Durations == {0, 3000}
\* The duration arguments that decide whether a toast stays until removed:
\* 0, or none (the default applies).
StayOrDefault == {0, Undefined}

\* A parameter default (`type = 'info'`) or `duration ?? 8000`.
OrDefault(value, default) == IF value = Undefined THEN default ELSE value

\* The list with the new toast in front.
WithToast_InFront(list, t) == <<t>> \o list

\* [...state.toasts, { id, message, type, duration }]
WithToast(list, t) == Append(list, t)

\* A filter that drops the first toast, whatever its id.
WithoutToast_First(list, id) == IF list = <<>> THEN list ELSE Tail(list)

\* A filter that also drops the toasts added before that one.
WithoutToast_AndOlder(list, id) == SelectSeq(list, LAMBDA t : t.id > id)

\* state.toasts.filter((t) => t.id !== id)
WithoutToast(list, id) == SelectSeq(list, LAMBDA t : t.id # id)

\* No toast ever gets a timer.
HasTimer_Never(duration) == FALSE

\* if (duration > 0) setTimeout(...)
HasTimer(duration) == duration > 0

\* addToast(message, type = 'info', duration = 5000).  The id is
\* `${Date.now()}-${Math.random()...}`: one the store has not used before.
addToast(message, type, duration) ==
    LET id == nextId
        t == [id |-> id, message |-> message,
              type |-> IF type = "undefined" THEN "info" ELSE type,
              duration |-> OrDefault(duration, DefaultDuration)]
    IN  /\ nextId <= MaxToasts
        /\ toasts' = WithToast(toasts, t)
        /\ timers' = IF HasTimer(t.duration) THEN timers \cup {id} ELSE timers
        /\ nextId' = nextId + 1

\* A caller adds a toast through the store.
AddToast(message, type, duration) ==
    /\ addToast(message, type, duration)
    /\ UNCHANGED <<session, usedRefresh, call>>
    /\ UNCHANGED pages

\* toast.success / toast.error / toast.warning / toast.info (message, duration?)
ToastHelper(kind, message, duration) ==
    /\ addToast(message, kind,
                IF kind = "error" THEN OrDefault(duration, ErrorDuration) ELSE duration)
    /\ UNCHANGED <<session, usedRefresh, call>>
    /\ UNCHANGED pages

\* removeToast(id), for any id, in the list or not.  The timer of the toast,
\* if it has one, is not cleared.
RemoveToast(id) ==
    /\ toasts' = WithoutToast(toasts, id)
    /\ UNCHANGED <<timers, nextId>>
    /\ UNCHANGED <<session, usedRefresh, call>>
    /\ UNCHANGED pages

\* The callback of the timer addToast set for the toast runs.
TimerFires(id) ==
    /\ id \in timers
    /\ toasts' = WithoutToast(toasts, id)
    /\ timers' = timers \ {id}
    /\ UNCHANGED nextId
    /\ UNCHANGED <<session, usedRefresh, call>>
    /\ UNCHANGED pages

\* ------------------------------------------------------------ the router
\* The routes nested under <AuthGuard><MainLayout/></AuthGuard>.
ProtectedPaths ==
    {"/", "/compose", "/calendar", "/media", "/analytics", "/accounts",
     "/inbox", "/strategy", "/link-in-bio", "/feed-planner", "/bulk-schedule",
     "/categories", "/settings"}
\* The paths a visitor may ask for: the routes, and one no route matches.
Paths == ProtectedPaths \cup {"/login", "/elsewhere"}

\* <Navigate to="/login" replace />
NavigateToLogin == "Navigate to /login"

\* A guard that lets everyone through.
AuthGuard_Open(auth, children) == children

\* AuthGuard: if (!isAuthenticated) return <Navigate .../>; return children.
AuthGuard(auth, children) == IF ~auth THEN NavigateToLogin ELSE children

\* <Routes>: the element rendered for a path.  A page is named by its path.
Element(path, auth) ==
    IF path = "/login" THEN "Login"
    ELSE IF path \in ProtectedPaths THEN AuthGuard(auth, path)
    ELSE "nothing"

\* The router after rendering `path`: a rendered <Navigate> replaces the
\* path, and the new path is rendered in turn.
Shown(path, auth) ==
    LET e == Element(path, auth)
    IN  IF e = NavigateToLogin
        THEN [route |-> "/login", screen |-> Element("/login", auth)]
        ELSE [route |-> path, screen |-> e]

\* The router when the application is opened on its login path.
RouterStart ==
    /\ asked = "/login"
    /\ route = Shown("/login", isAuthenticated).route
    /\ screen = Shown("/login", isAuthenticated).screen

\* The route tree renders again after the store changed (useAuthStore).
Rerender ==
    /\ route' = Shown(route, isAuthenticated').route
    /\ screen' = Shown(route, isAuthenticated').screen
    /\ UNCHANGED asked

\* The visitor asks for a path (a link, the address bar).
Visit(path) ==
    /\ asked' = path
    /\ route' = Shown(path, isAuthenticated).route
    /\ screen' = Shown(path, isAuthenticated).screen
    /\ UNCHANGED <<session, usedRefresh, call, toastVars>>
    /\ UNCHANGED notRouter

\* The login page signs the visitor in.
SignIn(data) ==
    /\ login(data.access_token, data.refresh_token)
    /\ Rerender
    /\ UNCHANGED <<requests, location, usedRefresh, call, toastVars>>
    /\ UNCHANGED notRouter

\* getMe().then(setUser)
ProfileFetched(u) ==
    /\ setUser(u)
    /\ Rerender
    /\ UNCHANGED <<requests, location, usedRefresh, call, toastVars>>
    /\ UNCHANGED notRouter

\* handleLogout: logout(); navigate('/login')
SignOut ==
    /\ screen \in ProtectedPaths
    /\ logout
    /\ asked' = "/login"
    /\ route' = Shown("/login", isAuthenticated').route
    /\ screen' = Shown("/login", isAuthenticated').screen
    /\ UNCHANGED <<requests, location, usedRefresh, call, toastVars>>
    /\ UNCHANGED notRouter

\* logout() called by the store's other users: only the guard reacts.
SessionDropped ==
    /\ logout
    /\ Rerender
    /\ UNCHANGED <<requests, location, usedRefresh, call, toastVars>>
    /\ UNCHANGED notRouter

\* ------------------------------------------------------ the Compose page
\* const CHAR_LIMITS: Record<string, number>
CHAR_LIMITS ==
    [p \in {"twitter", "instagram", "facebook", "tiktok"} |->
        CASE p = "twitter" -> 280
          [] p = "instagram" -> 2200
          [] p = "facebook" -> 63206
          [] p = "tiktok" -> 2200]

\* The limit when the platform has none, and when nothing is selected.
DefaultCharLimit == 2200

\* The connected accounts (the `accounts` query): one per known platform and
\* one of a platform CHAR_LIMITS does not list.
Accounts ==
    {[id |-> "a1", platform |-> "twitter"],
     [id |-> "a2", platform |-> "instagram"],
     [id |-> "a3", platform |-> "facebook"],
     [id |-> "a4", platform |-> "tiktok"],
     [id |-> "a5", platform |-> "linkedin"]}
AccountIds == {a.id : a \in Accounts}

\* A caption, by what the page reads of it: its length and whether trim()
\* leaves nothing.  The captions typed: empty, blanks only, and one at and
\* one just over each limit.
Caption(length, blank) == [length |-> length, blank |-> blank]
Captions ==
    {Caption(0, TRUE), Caption(3, TRUE)}
       \cup {Caption(CHAR_LIMITS[p], FALSE) : p \in DOMAIN CHAR_LIMITS}
       \cup {Caption(CHAR_LIMITS[p] + 1, FALSE) : p \in DOMAIN CHAR_LIMITS}
ScheduleTimes == {"", "2026-01-01T10:00"}

\* !caption.trim()
IsBlank(caption) == caption.blank

Min(S) == CHOOSE m \in S : \A n \in S : m <= n

\* CHAR_LIMITS[p] || 2200
CharLimit(p) == IF p \in DOMAIN CHAR_LIMITS THEN CHAR_LIMITS[p] ELSE DefaultCharLimit

\* selectedPlatforms and minCharLimit
minCharLimit(selectedAccounts) ==
    LET selectedPlatforms == {a.platform : a \in {b \in Accounts : b.id \in selectedAccounts}}
    IN  IF selectedPlatforms # {}
        THEN Min({CharLimit(p) : p \in selectedPlatforms})
        ELSE DefaultCharLimit

\* const isOverLimit = caption.length > minCharLimit
isOverLimit(caption, selectedAccounts) == caption.length > minCharLimit(selectedAccounts)

\* No post handed to the mutation.
NoPost == [kind |-> "none", caption |-> Caption(0, TRUE), account_ids |-> {}]

\* The arguments of publishMutation.mutate, as far as the page's checks go.
Post(kind, caption, account_ids) ==
    [kind |-> kind, caption |-> caption, account_ids |-> account_ids]

\* The page when it mounts.  `pending` is publishMutation.isPending, `post`
\* what the pending mutation was called with, `warning` the message of the
\* toast.warning the last click raised.
ComposeStart ==
    [caption |-> Caption(0, TRUE), selectedAccounts |-> {}, scheduleMode |-> FALSE,
     scheduleTime |-> "", pending |-> FALSE, post |-> NoPost, warning |-> "none"]

\* The disabled attribute of Publish Now and of Save as Draft.
Disabled(c) == c.pending \/ IsBlank(c.caption) \/ c.selectedAccounts = {}

\* The handler returning after toast.warning(message).
Warned(message) == compose' = [compose EXCEPT !.warning = message]

\* publishMutation.mutate({...})
Submitted(kind) ==
    compose' = [compose EXCEPT !.pending = TRUE,
                               !.warning = "none",
                               !.post = Post(kind, compose.caption, compose.selectedAccounts)]

ComposeFrame == UNCHANGED <<session, usedRefresh, call, toastVars, notCompose>>

\* onChange of the caption textarea
SetCaption(caption) ==
    /\ compose' = [compose EXCEPT !.caption = caption]
    /\ ComposeFrame

\* toggleAccount(id)
ToggleAccount(id) ==
    /\ compose' = [compose EXCEPT !.selectedAccounts =
                      IF id \in @ THEN @ \ {id} ELSE @ \cup {id}]
    /\ ComposeFrame

\* setScheduleMode(!scheduleMode)
ToggleScheduleMode ==
    /\ compose' = [compose EXCEPT !.scheduleMode = ~@]
    /\ ComposeFrame

\* onChange of the schedule time input, shown in schedule mode
SetScheduleTime(time) ==
    /\ compose.scheduleMode
    /\ compose' = [compose EXCEPT !.scheduleTime = time]
    /\ ComposeFrame

\* A click on Publish Now (rendered outside schedule mode): handlePublish.
handlePublish ==
    /\ ~compose.scheduleMode
    /\ ~Disabled(compose)
    /\ IF IsBlank(compose.caption) \/ compose.selectedAccounts = {}
       THEN Warned("Please add a caption and select at least one account")
       ELSE IF isOverLimit(compose.caption, compose.selectedAccounts)
       THEN Warned("Caption exceeds the character limit")
       ELSE Submitted("publish")
    /\ ComposeFrame

\* A click on Schedule Post (rendered in schedule mode): handleSchedule.
handleSchedule ==
    /\ compose.scheduleMode
    /\ ~(Disabled(compose) \/ compose.scheduleTime = "")
    /\ IF IsBlank(compose.caption) \/ compose.selectedAccounts = {}
       THEN Warned("Please add a caption and select at least one account")
       ELSE IF compose.scheduleTime = ""
       THEN Warned("Please select a schedule time")
       ELSE Submitted("schedule")
    /\ ComposeFrame

\* A click on Save as Draft: handleSaveDraft.
handleSaveDraft ==
    /\ ~Disabled(compose)
    /\ IF IsBlank(compose.caption) \/ compose.selectedAccounts = {}
       THEN Warned("Please add a caption and select at least one account")
       ELSE Submitted("draft")
    /\ ComposeFrame

\* createPost succeeded: onSuccess navigates to '/', the page unmounts.
PostCreated ==
    /\ compose.pending
    /\ compose' = ComposeStart
    /\ ComposeFrame

\* createPost failed: onError only raises a toast, the form stays.
PostFailed ==
    /\ compose.pending
    /\ compose' = [compose EXCEPT !.pending = FALSE, !.post = NoPost]
    /\ ComposeFrame

\* ------------------------------------------------ Bulk Schedule page
\* uploadMutation calls in flight at once.
MaxUploads == 2

\* The rows of an uploaded file, as far as the page looks at them.
RowNumbers == {"row1", "row2"}
BulkPreviewEntries == [row_number : RowNumbers, is_valid : BOOLEAN]

\* entries.filter((e) => e.is_valid)
ValidEntries(entries) == {e \in entries : e.is_valid}

\* The answers of /bulk/upload: each row at most once, valid or not.
BulkPreviewResponses ==
    {[entries |-> entries, valid_count |-> Cardinality(ValidEntries(entries))] :
        entries \in {es \in SUBSET BulkPreviewEntries :
                        \A a, b \in es : a.row_number = b.row_number => a = b}}

\* A state hook of type T | null, and the payload of a mutation in flight:
\* nothing, or one value.
Nothing == {}
Held(value) == {value}
TheValue(hook) == CHOOSE value \in hook : TRUE

\* The answer of /bulk/confirm to a payload.
BulkResults(payload) == [scheduled |-> payload]

\* The page when it mounts.  `uploads` counts the uploadMutation calls in
\* flight, `confirm` is the payload of the confirmMutation call in flight.
BulkStart ==
    [step |-> "upload", preview |-> Nothing, results |-> Nothing,
     uploadError |-> Null, uploads |-> 0, confirm |-> Nothing]

\* const hasValidRows = validCount > 0, with validCount = preview?.valid_count ?? 0
hasValidRows(b) ==
    (IF b.preview = Nothing THEN 0 ELSE TheValue(b.preview).valid_count) > 0

BulkFrame == UNCHANGED <<session, usedRefresh, call, toastVars, notBulk>>

\* handleDrop and handleFileChange with a file; the drop zone is rendered in
\* the upload step only, also while an upload is pending.
handleFileChange ==
    /\ bulk.step = "upload"
    /\ bulk.uploads < MaxUploads
    /\ bulk' = [bulk EXCEPT !.uploadError = Null, !.uploads = @ + 1]
    /\ BulkFrame

\* uploadMutation.onSuccess
UploadSucceeded(data) ==
    /\ bulk.uploads > 0
    /\ bulk' = [bulk EXCEPT !.uploads = @ - 1,
                            !.preview = Held(data),
                            !.uploadError = Null,
                            !.step = "preview"]
    /\ BulkFrame

\* uploadMutation.onError
UploadFailed ==
    /\ bulk.uploads > 0
    /\ bulk' = [bulk EXCEPT !.uploads = @ - 1, !.uploadError = "Upload failed"]
    /\ BulkFrame

\* Click on Confirm Schedule: preview && confirmMutation.mutate(preview.entries),
\* disabled={!hasValidRows || confirmMutation.isPending}
ConfirmSchedule ==
    /\ bulk.step = "preview"
    /\ hasValidRows(bulk)
    /\ bulk.confirm = Nothing
    /\ bulk.preview # Nothing
    /\ bulk' = [bulk EXCEPT
                  !.confirm = Held(ValidEntries(TheValue(bulk.preview).entries))]
    /\ BulkFrame

\* confirmMutation.onSuccess
ConfirmSucceeded ==
    /\ bulk.confirm # Nothing
    /\ bulk' = [bulk EXCEPT !.confirm = Nothing,
                            !.results = Held(BulkResults(TheValue(bulk.confirm))),
                            !.step = "results"]
    /\ BulkFrame

\* The confirm request failing: confirmMutation has no onError.
ConfirmFailed ==
    /\ bulk.confirm # Nothing
    /\ bulk' = [bulk EXCEPT !.confirm = Nothing]
    /\ BulkFrame

\* Back in the preview step, Schedule More in the results step.
restart ==
    /\ bulk.step \in {"preview", "results"}
    /\ bulk' = [bulk EXCEPT !.step = "upload", !.preview = Nothing,
                            !.results = Nothing, !.uploadError = Null]
    /\ BulkFrame

\* ------------------------------------------------------ Strategy page
\* What the fields of the questionnaire can hold.
TextInputs == {"", " ", "bakery"}
Goals == {"awareness"}
Platforms == {"instagram"}
Tones == {"", "casual"}
Frequencies == {"", "daily"}
Pillars == {"recipes"}
StrategyResponses == {"plan A", "plan B"}

\* String.prototype.trim, on the inputs above.
Trim(text) == IF text = " " THEN "" ELSE text

EmptyForm ==
    [business_type |-> "", target_audience |-> "", goals |-> {}, platforms |-> {},
     tone |-> "", posting_frequency |-> "", content_pillars |-> {}]

isStep1Valid(form) ==
    /\ Trim(form.business_type) # ""
    /\ Trim(form.target_audience) # ""
    /\ form.goals # {}

isStep2Valid(form) ==
    /\ form.platforms # {}
    /\ form.tone # ""
    /\ form.posting_frequency # ""

\* A Next button that is never disabled by the form.
canGoNext_Always(s) == s.step \in {0, 1, 2}

canGoNext(s) ==
    IF s.step = 0 THEN isStep1Valid(s.form)
    ELSE IF s.step = 1 THEN isStep2Valid(s.form)
    ELSE s.step = 2

\* The page when it mounts.  `mutation` is the questionnaire of the
\* strategyMutation call in flight, `isError` the mutation's error flag.
StrategyStart ==
    [step |-> 0, form |-> EmptyForm, result |-> Nothing, mutation |-> Nothing,
     isError |-> FALSE]

\* The step content with its Back and Next buttons is rendered: no generation
\* pending, and not the results.
ShowsForm(s) == s.mutation = Nothing /\ ~(s.step = 3 /\ s.result # Nothing)

StrategyFrame == UNCHANGED <<session, usedRefresh, call, toastVars, notStrategy>>

\* setForm from the component of the current step.
SetStep1(business_type, target_audience, goals) ==
    /\ ShowsForm(strategy)
    /\ strategy.step = 0
    /\ strategy' = [strategy EXCEPT !.form.business_type = business_type,
                                    !.form.target_audience = target_audience,
                                    !.form.goals = goals]
    /\ StrategyFrame

SetStep2(platforms, tone, posting_frequency) ==
    /\ ShowsForm(strategy)
    /\ strategy.step = 1
    /\ strategy' = [strategy EXCEPT !.form.platforms = platforms,
                                    !.form.tone = tone,
                                    !.form.posting_frequency = posting_frequency]
    /\ StrategyFrame

SetStep3(content_pillars) ==
    /\ ShowsForm(strategy)
    /\ strategy.step = 2
    /\ strategy' = [strategy EXCEPT !.form.content_pillars = content_pillars]
    /\ StrategyFrame

\* Click on Next / Generate Strategy:
\* disabled={!canGoNext() || strategyMutation.isPending}
handleNext ==
    /\ ShowsForm(strategy)
    /\ canGoNext(strategy)
    /\ strategy' = IF strategy.step < 2
                     THEN [strategy EXCEPT !.step = @ + 1]
                     ELSE IF strategy.step = 2
                            THEN [strategy EXCEPT !.mutation = Held(strategy.form),
                                                  !.isError = FALSE]
                            ELSE strategy
    /\ StrategyFrame

\* Click on Back: disabled={step === 0}
handleBack ==
    /\ ShowsForm(strategy)
    /\ strategy.step # 0
    /\ strategy' = IF strategy.step > 0 /\ strategy.step < 3
                     THEN [strategy EXCEPT !.step = @ - 1]
                     ELSE strategy
    /\ StrategyFrame

\* strategyMutation.onSuccess
StrategyGenerated(data) ==
    /\ strategy.mutation # Nothing
    /\ strategy' = [strategy EXCEPT !.mutation = Nothing,
                                    !.result = Held(data),
                                    !.step = 3]
    /\ StrategyFrame

\* The generation failing: the mutation has no onError, isError shows a message.
StrategyFailed ==
    /\ strategy.mutation # Nothing
    /\ strategy' = [strategy EXCEPT !.mutation = Nothing, !.isError = TRUE]
    /\ StrategyFrame

\* Click on Start Over, rendered when step === 3 && result.
handleStartOver ==
    /\ strategy.step = 3
    /\ strategy.result # Nothing
    /\ strategy' = StrategyStart
    /\ StrategyFrame

\* ---------------------------------------------------- Link-in-Bio page
PageIds == {"page1", "page2"}
Titles == {"one", "two"}

\* A page as /bio/pages lists it: the fields of the draft (the title stands
\* for all seven) and the fields the draft leaves out.
BioPages == [title : Titles, is_published : BOOLEAN]

\* The data of the pages query: for each id no page, or the page.
PageLists == [PageIds -> {Nothing} \cup {Held(page) : page \in BioPages}]
NoPages == [id \in PageIds |-> Nothing]

draftFromPage(page) == [title |-> page.title]
EMPTY_DRAFT == [title |-> ""]

\* pages[0].id
FirstPageId(list) ==
    IF list["page1"] # Nothing THEN "page1" ELSE "page2"

\* const selectedPage = pages?.find((p) => p.id === selectedPageId) ?? null
\* The page object carries its id: the pages of two ids are never the same
\* object, whatever their fields.
selectedPage(b) ==
    IF b.selectedPageId = Null THEN Nothing
    ELSE {[id |-> b.selectedPageId, title |-> page.title,
           is_published |-> page.is_published] : page \in b.pages[b.selectedPageId]}

\* A cleanup that clears nothing.
clearTimeout_Nothing(pending, id) == pending

clearTimeout(pending, id) == {t \in pending : t.id # id}

\* The page when it mounts.  A timer holds the draft of the render that set
\* it; `cleanup` is the timer the last run of the auto-save effect returned a
\* cleanup for (0: none), `lastTimer` the last id setTimeout gave out, `sent`
\* the last call of updateBioPage, `editedFor` the page updateDraft was last
\* called under (Null once the draft was loaded from a page again).
BioStart ==
    [pages |-> NoPages, selectedPageId |-> Null, draft |-> EMPTY_DRAFT,
     timers |-> {}, cleanup |-> 0, lastTimer |-> 0,
     sent |-> Nothing, editedFor |-> Null]

\* The auto-save effect of one render, run because draft or selectedPageId
\* changed: the cleanup of its last run, then its body.
AutoSave(b) ==
    LET cleared == clearTimeout(b.timers, b.cleanup)
        page == selectedPage(b)
        changed == b.draft # draftFromPage(TheValue(page))
        timer == (b.lastTimer % 3) + 1
    IN  IF b.selectedPageId = Null \/ page = Nothing
          THEN [b EXCEPT !.timers = cleared, !.cleanup = 0]
          ELSE IF ~changed
                 THEN [b EXCEPT !.timers = cleared, !.cleanup = 0]
                 ELSE [b EXCEPT !.timers = cleared \cup
                                   {[id |-> timer, draft |-> b.draft,
                                     selectedPageId |-> b.selectedPageId]},
                                !.cleanup = timer,
                                !.lastTimer = timer]

\* The effects of the render of b, in the order of the component, and the
\* renders their state updates cause in turn.  `previous` is selectedPage of
\* the render before; the flags say which dependencies changed.
RECURSIVE Effects(_, _, _, _, _)
Effects(b, previous, draftChanged, idChanged, pagesChanged) ==
    LET page == selectedPage(b)
        autoSelect == /\ pagesChanged \/ idChanged
                      /\ b.pages # NoPages
                      /\ b.selectedPageId = Null
        resetDraft == page # previous
        saved == IF draftChanged \/ idChanged THEN AutoSave(b) ELSE b
        updated == [saved EXCEPT
                      !.selectedPageId = IF autoSelect THEN FirstPageId(b.pages) ELSE @,
                      !.draft = IF ~resetDraft THEN @
                                ELSE IF page # Nothing THEN draftFromPage(TheValue(page))
                                ELSE EMPTY_DRAFT,
                      !.editedFor = IF resetDraft THEN Null ELSE @]
    IN  IF autoSelect \/ resetDraft
          THEN Effects(updated, page, resetDraft, autoSelect, FALSE)
          ELSE saved

BioFrame == UNCHANGED <<session, usedRefresh, call, toastVars, notBio>>

\* The pages query delivering new data (first load, or a refetch after
\* invalidatePages).
PagesFetched(data) ==
    /\ data # bio.pages
    /\ bio' = Effects([bio EXCEPT !.pages = data], selectedPage(bio), FALSE, FALSE, TRUE)
    /\ BioFrame

\* onChange of the page select, rendered with more than one page.
SelectPage(id) ==
    /\ \A other \in PageIds : bio.pages[other] # Nothing
    /\ id # bio.selectedPageId
    /\ bio' = Effects([bio EXCEPT !.selectedPageId = id], selectedPage(bio), FALSE, TRUE, FALSE)
    /\ BioFrame

\* createPageMutation.onSuccess: the new page is selected before the query
\* lists it.
PageCreated(id) ==
    /\ bio.pages[id] = Nothing
    /\ id # bio.selectedPageId
    /\ bio' = Effects([bio EXCEPT !.selectedPageId = id], selectedPage(bio), FALSE, TRUE, FALSE)
    /\ BioFrame

\* deletePageMutation.onSuccess
PageDeleted ==
    /\ bio.selectedPageId # Null
    /\ bio' = Effects([bio EXCEPT !.selectedPageId = Null], selectedPage(bio), FALSE, TRUE, FALSE)
    /\ BioFrame

\* updateDraft(patch) from the editor, rendered with a selected page.
updateDraft(title) ==
    /\ selectedPage(bio) # Nothing
    /\ bio' = Effects([bio EXCEPT !.draft = [title |-> title],
                                  !.editedFor = bio.selectedPageId],
                      selectedPage(bio), TRUE, FALSE, FALSE)
    /\ BioFrame

\* A save timer firing: updatePageMutation.mutate(draft) with the draft of the
\* timer's render; mutationFn is the one of the current render.
SaveTimerFires(t) ==
    /\ t \in bio.timers
    /\ bio' = [bio EXCEPT !.timers = @ \ {t},
                          !.sent = Held([page |-> bio.selectedPageId, data |-> t.draft])]
    /\ BioFrame

\* ------------------------------------------- feed planner: reorder bar
PostIds == {"post1", "post2", "post3"}

\* The scheduled posts of the grid, in the order of the grid: each id once.
ScheduledLists ==
    {list \in UNION {[1..n -> PostIds] : n \in 0..Cardinality(PostIds)} :
        \A i, j \in DOMAIN list : list[i] = list[j] => i = j}

\* Array.prototype.splice(start, 1) and splice(start, 0, item), with indices
\* from 0 as in the code: what is left, what was removed (undefined when
\* start is past the end), and the list with item put in.
SpliceOut(list, start) ==
    IF start < Len(list)
      THEN SubSeq(list, 1, start) \o SubSeq(list, start + 2, Len(list))
      ELSE list
Removed(list, start) == IF start < Len(list) THEN list[start + 1] ELSE "undefined"
SpliceIn(list, start, item) ==
    LET at == Min({start, Len(list)})
    IN  SubSeq(list, 1, at) \o <<item>> \o SubSeq(list, at + 1, Len(list))

\* A move that swaps the two items.
moveItem_Swap(list, from, to) ==
    [i \in DOMAIN list |-> IF i = from + 1 THEN list[to + 1]
                           ELSE IF i = to + 1 THEN list[from + 1]
                           ELSE list[i]]

\* moveItem(from, to): the value handed to setLocalOrder.
moveItem(list, from, to) ==
    SpliceIn(SpliceOut(list, from), to, Removed(list, from))

\* The bar when it mounts.  `captured` remembers what startReorder read.
ReorderStart ==
    [scheduledItems |-> <<>>, localOrder |-> <<>>, captured |-> <<>>,
     draggingIdx |-> Nothing, showReorder |-> FALSE, saved |-> Nothing]

\* The bar renders (scheduledItems.length >= 2), with its rows or without.
ShowsBar(r) == Len(r.scheduledItems) >= 2
ShowsRows(r) == ShowsBar(r) /\ r.showReorder
Rows(r) == 0..(Len(r.localOrder) - 1)

ReorderFrame == UNCHANGED <<session, usedRefresh, call, toastVars, notReorder>>

\* The grid query delivering other items.
ItemsFetched(list) ==
    /\ list # reorder.scheduledItems
    /\ reorder' = [reorder EXCEPT !.scheduledItems = list]
    /\ ReorderFrame

\* Click on Reorder Scheduled.
startReorder ==
    /\ ShowsBar(reorder)
    /\ ~reorder.showReorder
    /\ reorder' = [reorder EXCEPT !.localOrder = reorder.scheduledItems,
                                  !.captured = reorder.scheduledItems,
                                  !.showReorder = TRUE]
    /\ ReorderFrame

onDragStart(idx) ==
    /\ ShowsRows(reorder)
    /\ reorder.draggingIdx = Nothing
    /\ reorder' = [reorder EXCEPT !.draggingIdx = Held(idx)]
    /\ ReorderFrame

\* The pointer over the row idx, during the drag of a row or of anything else.
onDragOver(idx) ==
    /\ ShowsRows(reorder)
    /\ reorder' =
         IF reorder.draggingIdx # Nothing /\ reorder.draggingIdx # Held(idx)
           THEN [reorder EXCEPT
                   !.localOrder = moveItem(@, TheValue(reorder.draggingIdx), idx),
                   !.draggingIdx = Held(idx)]
           ELSE reorder
    /\ ReorderFrame

onDragEnd ==
    /\ reorder.draggingIdx # Nothing
    /\ reorder' = [reorder EXCEPT !.draggingIdx = Nothing]
    /\ ReorderFrame

\* Click on Cancel; no click lands while a row is being dragged.
CancelReorder ==
    /\ ShowsRows(reorder)
    /\ reorder.draggingIdx = Nothing
    /\ reorder' = [reorder EXCEPT !.showReorder = FALSE]
    /\ ReorderFrame

\* Click on Save Order: onReorder(localOrder).
SaveOrder ==
    /\ ShowsRows(reorder)
    /\ reorder.draggingIdx = Nothing
    /\ reorder' = [reorder EXCEPT !.showReorder = FALSE,
                                  !.saved = Held(reorder.localOrder)]
    /\ ReorderFrame

\* No store function called directly yet.
NoCall ==
    [name |-> "none", access |-> Null, refresh |-> Null, user |-> Null,
     again |-> FALSE]

\* create<ToastStore>: toasts: [], no timer set.
ToastStart ==
    /\ toasts = <<>>
    /\ timers = {}
    /\ nextId = 1

StartState ==
    /\ requests = [r \in Requests |-> IdleRequest]
    /\ location = "app"
    /\ isAuthenticated = InitialAuthenticated(localStorage)
    /\ user = Null
    /\ usedRefresh = {}
    /\ call = NoCall
    /\ ToastStart
    /\ RouterStart
    /\ compose = ComposeStart
    /\ bulk = BulkStart
    /\ strategy = StrategyStart
    /\ bio = BioStart
    /\ reorder = ReorderStart

Init ==
    /\ localStorage \in [access_token : StoredAccess, refresh_token : StoredRefresh]
    /\ StartState

\* Storage as the client itself leaves it: both credentials or neither.
InitPaired ==
    /\ localStorage \in {NoData, TokenResponse(1)}
    /\ StartState

Next ==
    \/ \E r \in Requests, url \in Urls : Dispatch(r, url)
    \/ \E r \in Requests : ResponseFulfilled(r)
    \/ \E r \in Requests, status \in FailureStatuses : ResponseRejected(r, status)
    \/ \E r \in Requests, data \in TokenResponses : RenewalFulfilled(r, data)
    \/ \E r \in Requests, status \in FailureStatuses : RenewalRejected(r, status)
    \/ \E data \in TokenResponses : Login(data)
    \/ Logout
    \/ Reload

Spec == Init /\ [][Next]_vars

SpecPaired == InitPaired /\ [][Next]_vars

\* The client against the rotating backend, from the page load on.
NextRotating ==
    \/ \E r \in Requests, url \in Urls : Dispatch(r, url)
    \/ \E r \in Requests : ResponseFulfilled(r)
    \/ \E r \in Requests, status \in FailureStatuses : ResponseRejected(r, status)
    \/ \E r \in Requests : RotatingRenewalFulfilled(r)
    \/ \E r \in Requests : RotatingRenewalRejected(r)
    \/ Logout
    \/ Reload

SpecRotating == InitPaired /\ [][NextRotating]_vars

\* A network call in flight on behalf of request r returns: the response of
\* the request or of its retry, or the answer of its renewal call.
Returns(r) ==
    \/ ResponseFulfilled(r)
    \/ \E status \in FailureStatuses : ResponseRejected(r, status)
    \/ \E data \in TokenResponses : RenewalFulfilled(r, data)
    \/ \E status \in FailureStatuses : RenewalRejected(r, status)

\* The number of network calls a request in flight may still wait for before
\* its promise settles: the first attempt, the renewal call, the retry.
Rank(req) ==
    CASE req.pc = "sent" -> 3
      [] req.pc = "renewing" -> 2
      [] req.pc = "resent" -> 1
      [] OTHER -> 0

\* The auth store alone, its functions called in any order with any
\* arguments, from the store as the page load builds it.
NextStore ==
    \/ \E access, refresh \in StoreTokens : CallLogin(access, refresh)
    \/ \E u \in Users : CallSetUser(u)
    \/ CallLogout

SpecStore == Init /\ [][NextStore]_vars

\* The toast store alone, from its creation on.
InitToast ==
    /\ localStorage = NoData
    /\ StartState

NextToast ==
    \/ \E message \in Messages, type \in ToastTypes \cup {"undefined"},
          duration \in StayOrDefault :
          AddToast(message, type, duration)
    \/ \E kind \in ToastTypes, message \in Messages, duration \in StayOrDefault :
          ToastHelper(kind, message, duration)
    \/ \E id \in ToastIds : RemoveToast(id)
    \/ \E id \in ToastIds : TimerFires(id)

SpecToast == InitToast /\ [][NextToast]_vars

\* The toast store when every timer that is due runs its callback.  The
\* only input that matters to the timers is the duration.
NextToastTimers ==
    \/ \E duration \in Durations \cup {Undefined} :
          AddToast("saved", "undefined", duration)
    \/ \E duration \in Durations \cup {Undefined} :
          ToastHelper("error", "failed", duration)
    \/ \E id \in ToastIds : RemoveToast(id)
    \/ \E id \in ToastIds : TimerFires(id)

SpecToastTimers ==
    /\ InitToast
    /\ [][NextToastTimers]_vars
    /\ \A id \in ToastIds : WF_vars(TimerFires(id))

\* The router and the auth store.
NextRoutes ==
    \/ \E path \in Paths : Visit(path)
    \/ \E data \in TokenResponses : SignIn(data)
    \/ \E u \in Users : ProfileFetched(u)
    \/ SignOut
    \/ SessionDropped

SpecRoutes == Init /\ [][NextRoutes]_vars

\* The Compose page alone.
InitCompose ==
    /\ localStorage = TokenResponse(1)
    /\ StartState

NextCompose ==
    \/ \E caption \in Captions : SetCaption(caption)
    \/ \E id \in AccountIds : ToggleAccount(id)
    \/ ToggleScheduleMode
    \/ \E time \in ScheduleTimes : SetScheduleTime(time)
    \/ handlePublish
    \/ handleSchedule
    \/ handleSaveDraft
    \/ PostCreated
    \/ PostFailed

SpecCompose == InitCompose /\ [][NextCompose]_vars

\* The Bulk Schedule page alone.
NextBulk ==
    \/ handleFileChange
    \/ \E data \in BulkPreviewResponses : UploadSucceeded(data)
    \/ UploadFailed
    \/ ConfirmSchedule
    \/ ConfirmSucceeded
    \/ ConfirmFailed
    \/ restart

SpecBulk == InitCompose /\ [][NextBulk]_vars

\* The Strategy page alone.
NextStrategy ==
    \/ \E business_type, target_audience \in TextInputs, goals \in SUBSET Goals :
          SetStep1(business_type, target_audience, goals)
    \/ \E platforms \in SUBSET Platforms, tone \in Tones, posting_frequency \in Frequencies :
          SetStep2(platforms, tone, posting_frequency)
    \/ \E content_pillars \in SUBSET Pillars : SetStep3(content_pillars)
    \/ handleNext
    \/ handleBack
    \/ \E data \in StrategyResponses : StrategyGenerated(data)
    \/ StrategyFailed
    \/ handleStartOver

SpecStrategy == InitCompose /\ [][NextStrategy]_vars

\* The Link-in-Bio page alone.
NextBio ==
    \/ \E data \in PageLists : PagesFetched(data)
    \/ \E id \in PageIds : SelectPage(id)
    \/ \E id \in PageIds : PageCreated(id)
    \/ PageDeleted
    \/ \E title \in Titles \cup {""} : updateDraft(title)
    \/ \E t \in bio.timers : SaveTimerFires(t)

SpecBio == InitCompose /\ [][NextBio]_vars

\* The reorder bar alone.
NextReorder ==
    \/ \E list \in ScheduledLists : ItemsFetched(list)
    \/ startReorder
    \/ \E idx \in Rows(reorder) : onDragStart(idx)
    \/ \E idx \in Rows(reorder) : onDragOver(idx)
    \/ onDragEnd
    \/ CancelReorder
    \/ SaveOrder

SpecReorder == InitCompose /\ [][NextReorder]_vars

\* ================================================================ claims
Req(r) == requests[r]
StoredRefreshToken == getItem(localStorage, "refresh_token")
StoredAccessToken == getItem(localStorage, "access_token")

\* ---------------------------------------------------------------- C1
\* C1: a first attempt that receives a 401 while a refresh credential is
\* stored makes exactly one renewal call (while a refresh credential is
\* stored, a first attempt never settles with a 401 and every renewal it
\* starts is its first); when the renewal succeeds the request is re-sent,
\* for the second and last time, with the bearer header of the credential
\* the renewal just issued.
C1_RenewOnceResendOnce ==
    [][\A r \in Requests :
         LET req == requests[r]
             req2 == requests'[r]
         IN  /\ (req.pc = "sent" /\ Truthy(StoredRefreshToken) /\ req2.pc = "done")
                    => (req2.outcome.status # 401 /\ req2.renewals = 0)
             /\ (req.pc = "sent" /\ req2.pc = "renewing")
                    => (req2.renewals = 1 /\ req2.sends = 1)
             /\ (req.pc = "renewing" /\ req2.pc = "resent")
                    => /\ req2.resp \in TokenResponses
                       /\ req2.config.Authorization = Bearer(req2.resp.access_token)
                       /\ req2.config.url = req.config.url
                       /\ req2.sends = 2
                       /\ req2.renewals = 1
             /\ req.pc = "resent"
                    => /\ req2.pc \in {"resent", "done", "idle"}
                       /\ req2.pc = "done" => (req2.sends = 2 /\ req2.renewals = 1)
      ]_vars

\* A request first sent with the stale credential A1 is on the wire again
\* after one renewal, carrying the newly issued A2.
C1_Witness ==
    \E r \in Requests :
        /\ Req(r).pc = "resent"
        /\ Req(r).sends = 2
        /\ Req(r).renewals = 1
        /\ Req(r).resp = TokenResponse(2)
        /\ Req(r).config.Authorization = "Bearer A2"

\* ---------------------------------------------------------------- C2
\* C2: a first attempt that receives a 401 while no refresh credential is
\* stored makes no renewal call, leaves storage empty, navigates to /login
\* and rejects with the original failure.
C2_NoRefreshClearsStorage ==
    [][\A r \in Requests :
         LET req == requests[r]
             req2 == requests'[r]
         IN  (/\ req.pc = "sent"
              /\ ~Truthy(StoredRefreshToken)
              /\ req2.pc = "done"
              /\ req2.outcome.status = 401)
             => /\ req2.renewals = 0
                /\ localStorage' = NoData
                /\ location' = "/login"
                /\ req2.outcome = Rejected("request", 401)
      ]_vars

C4_AtMostOneRenewal ==
    \A r \in Requests :
        /\ Req(r).renewals <= 1
        /\ Req(r).outcome.of = "retry" => Req(r).renewals = 1
        /\ Req(r).pc = "resent" => (Req(r).renewals = 1 /\ Req(r).config._retry)

\* A retried request received a second 401 and settled, after one renewal.
C4_Witness ==
    \E r \in Requests :
        /\ Req(r).pc = "done"
        /\ Req(r).outcome = Rejected("retry", 401)
        /\ Req(r).renewals = 1

\* ---------------------------------------------------------------- C5
\* C5: when the renewal call succeeds, storage holds the newly issued access
\* and refresh credentials at the moment the request is re-dispatched, and
\* the caller receives the outcome of the retry.
C5_PersistThenRetryOutcome ==
    [][\A r \in Requests :
         LET req == requests[r]
             req2 == requests'[r]
         IN  /\ (req.pc = "renewing" /\ req2.pc = "resent")
                    => /\ req2.resp \in TokenResponses
                       /\ getItem(localStorage', "access_token") = req2.resp.access_token
                       /\ getItem(localStorage', "refresh_token") = req2.resp.refresh_token
             /\ (req.pc = "resent" /\ req2.pc = "done")
                    => /\ req2.outcome.of = "retry"
                       /\ req2.outcome.settled =
                             IF req2.outcome.status = 200 THEN "resolved" ELSE "rejected"
      ]_vars

\* After a renewal that issued the second pair, the retry succeeded and the
\* caller holds its response; storage holds the second pair.
C5_Witness ==
    \E r \in Requests :
        /\ Req(r).pc = "done"
        /\ Req(r).sends = 2
        /\ Req(r).outcome = Resolved("retry", 200)
        /\ localStorage = TokenResponse(2)

\* ---------------------------------------------------------------- C6
\* C6 as claimed: when the retry receives a 401, credentials are cleared,
\* the client navigates to /login and the failure is surfaced.
C6_Second401ForcesLogout ==
    [][\A r \in Requests :
         LET req == requests[r]
             req2 == requests'[r]
         IN  (req.pc = "resent" /\ req2.pc = "done" /\ req2.outcome.status = 401)
             => /\ localStorage' = NoData
                /\ location' = "/login"
                /\ req2.outcome.settled = "rejected"
      ]_vars

\* C6 amended: when the retry receives a 401, the failure is terminal for the
\* request only: the retry's error is surfaced to the caller with no further
\* renewal call or dispatch, and storage and location are left as they were
\* (no logout is forced).
C6_Second401OnlySurfaced ==
    [][\A r \in Requests :
         LET req == requests[r]
             req2 == requests'[r]
         IN  (req.pc = "resent" /\ req2.pc = "done" /\ req2.outcome.status = 401)
             => /\ req2.outcome = Rejected("retry", 401)
                /\ req2.renewals = req.renewals
                /\ req2.sends = req.sends
                /\ ~req2.navigated
                /\ localStorage' = localStorage
                /\ location' = location
      ]_vars

\* The retry came back with a 401: the request has settled with that error,
\* while storage still holds the renewed pair and no navigation started.
C6_Witness ==
    \E r \in Requests :
        /\ Req(r).pc = "done"
        /\ Req(r).outcome = Rejected("retry", 401)
        /\ localStorage = TokenResponse(2)
        /\ location = "app"

\* ---------------------------------------------------------------- C7
\* C7: every request put on the wire through api (a first attempt or a
\* retry) carries Authorization: Bearer <the access credential stored at
\* that moment>; a first attempt dispatched while none is stored carries no
\* Authorization header.
C7_BearerOfStoredAccess ==
    [][\A r \in Requests :
         LET req == requests[r]
             req2 == requests'[r]
         IN  /\ (req.pc = "idle" /\ req2.pc = "sent")
                    => req2.config.Authorization =
                          IF StoredAccessToken # Null
                          THEN "Bearer " \o StoredAccessToken
                          ELSE Null
             /\ (req.pc = "renewing" /\ req2.pc = "resent")
                    => /\ getItem(localStorage', "access_token") # Null
                       /\ req2.config.Authorization =
                             "Bearer " \o getItem(localStorage', "access_token")
      ]_vars

\* A request is in flight with the header of the stored credential.
C7_Witness ==
    \E r \in Requests :
        /\ Req(r).pc = "sent"
        /\ StoredAccessToken = "A1"
        /\ Req(r).config.Authorization = "Bearer A1"

\* ---------------------------------------------------------------- C8
\* C8: a failure that is not a 401 (another status, or no response) is
\* rejected to the caller as it is: no renewal call is started for it (the
\* handler only ever awaits a renewal for a 401), the request is not re-sent,
\* and storage and location are unchanged.
C8_OtherFailuresPassThrough ==
    [][\A r \in Requests :
         LET req == requests[r]
             req2 == requests'[r]
         IN  /\ (/\ req.pc \in {"sent", "resent"}
                 /\ req2.pc = "done"
                 /\ req2.outcome.settled = "rejected"
                 /\ req2.outcome.status # 401)
                    => /\ req2.outcome.of = AttemptOf(req)
                       /\ req2.renewals = req.renewals
                       /\ req2.sends = req.sends
                       /\ ~req2.navigated
                       /\ localStorage' = localStorage
                       /\ location' = location
             /\ req2.pc = "renewing" => req2.error.status = 401
      ]_vars

\* A first attempt failed with a 500 while both credentials were stored: it
\* settled with that error, nothing was renewed and nothing else changed.
C8_Witness ==
    \E r \in Requests :
        /\ Req(r).pc = "done"
        /\ Req(r).outcome = Rejected("request", 500)
        /\ Req(r).renewals = 0
        /\ Req(r).sends = 1
        /\ localStorage = TokenResponse(1)
        /\ location = "app"

\* ---------------------------------------------------------------- C9
\* C9: whenever a handler of the gateway sets the location to /login, storage
\* holds no credential at that moment.
C9_StorageEmptyAtNavigation ==
    [][\A r \in Requests :
         (requests'[r].navigated /\ ~requests[r].navigated) => localStorage' = NoData
      ]_vars

\* ---------------------------------------------------------------- C10
\* C10: in every reachable state, if the access credential or the refresh
\* credential is absent from storage, the authenticated flag is false.
C10_AbsentCredentialImpliesUnauthenticated ==
    (StoredAccessToken = Null \/ StoredRefreshToken = Null) => ~isAuthenticated

\* ---------------------------------------------------------------- C11
\* C11: the authenticated flag turns true only in a step of login or of a
\* successful profile fetch, turns false only in a step of logout or of a
\* failed renewal, and every step in which a renewal call fails leaves it
\* false.  (A page load builds the store anew and is no transition of it.)
C11_OnlyTwoTransitions ==
    [][Reload \/
       /\ (~isAuthenticated /\ isAuthenticated')
             => \/ \E data \in TokenResponses : Login(data)
                \/ \E r \in Requests :
                      requests[r].config.url = "/auth/me" /\ ResponseFulfilled(r)
       /\ (isAuthenticated /\ ~isAuthenticated')
             => \/ Logout
                \/ \E r \in Requests, status \in FailureStatuses : RenewalRejected(r, status)
       /\ (\E r \in Requests, status \in FailureStatuses : RenewalRejected(r, status))
             => ~isAuthenticated'
      ]_vars

\* ---------------------------------------------------------------- C12
\* C12: renewal is not single-flight.  A first attempt that receives a 401
\* while a refresh credential is stored starts its own renewal call with the
\* stored refresh credential even while renewal calls of other requests are
\* in flight (it never settles with the 401 instead); the step sets the
\* marker of that request only and touches no other request, and a request
\* still on its first attempt has its own marker unset whatever the markers
\* of the others.  So the renewal calls in flight are one per such request.
C12_RenewalPerRequest ==
    [][\A r \in Requests :
         LET req == requests[r]
             req2 == requests'[r]
             others == Requests \ {r}
         IN  /\ (/\ req.pc = "sent"
                 /\ Truthy(StoredRefreshToken)
                 /\ \E q \in others : requests[q].pc = "renewing"
                 /\ req2.pc = "done")
                    => req2.outcome.status # 401
             /\ (req.pc = "sent" /\ req2.pc = "renewing")
                    => /\ ~req.config._retry
                       /\ req2.config._retry
                       /\ req2.renewals = 1
                       /\ req2.refreshToken = StoredRefreshToken
                       /\ \A q \in others : requests'[q] = requests[q]
             /\ req2.pc = "sent" => ~req2.config._retry
      ]_vars

\* Every request is in flight, each received a 401 and each has its own
\* renewal call under way, all with the same refresh credential.
C12_Witness ==
    \A r \in Requests :
        /\ Req(r).pc = "renewing"
        /\ Req(r).renewals = 1
        /\ Req(r).config._retry
        /\ Req(r).refreshToken = "R1"

\* ---------------------------------------------------------------- C13
\* C13: against a backend on which a refresh credential can be exchanged
\* once, a renewal that succeeds retires the credential it presented and
\* leaves in storage a new pair whose refresh credential the backend still
\* accepts, while every other renewal call in flight that presented the same
\* credential is from then on bound to fail; and when such a call fails, the
\* handler empties storage and navigates to /login whatever storage holds,
\* the valid new pair included.
C13_ConcurrentRenewalWipesNewPair ==
    [][\A r \in Requests :
         LET req == requests[r]
             req2 == requests'[r]
         IN  /\ (req.pc = "renewing" /\ req2.pc = "resent")
                    => /\ req.refreshToken \notin usedRefresh
                       /\ req.refreshToken \in usedRefresh'
                       /\ localStorage' = req2.resp
                       /\ getItem(localStorage', "refresh_token") \notin usedRefresh'
                       /\ \A q \in Requests \ {r} :
                             (/\ requests[q].pc = "renewing"
                              /\ requests[q].refreshToken = req.refreshToken)
                             => /\ requests'[q].pc = "renewing"
                                /\ requests'[q].refreshToken \in usedRefresh'
             /\ (req.pc = "renewing" /\ req.refreshToken \in usedRefresh)
                    => req2.pc \in {"renewing", "done", "idle"}
             /\ (/\ req.pc = "renewing"
                 /\ req.refreshToken \in usedRefresh
                 /\ req2.pc = "done")
                    => /\ localStorage' = NoData
                       /\ location' = "/login"
                       /\ req2.navigated
      ]_vars

\* Two requests presented R1 concurrently.  One renewal succeeded: its
\* request is on the wire again with the second pair, whose refresh
\* credential the backend still accepts.  The other failed, and storage is
\* empty: the second pair has been wiped.
C13_Witness ==
    \E a, b \in Requests :
        /\ a # b
        /\ Req(a).pc = "resent"
        /\ Req(a).resp = TokenResponse(2)
        /\ Req(a).resp.refresh_token \notin usedRefresh
        /\ Req(b).pc = "done"
        /\ Req(b).renewals = 1
        /\ Req(b).navigated
        /\ usedRefresh = {"R1"}
        /\ localStorage = NoData
        /\ location = "/login"

\* ---------------------------------------------------------------- C14
\* C14: every dispatch terminates.  A request is sent at most twice and
\* renewed at most once; while it is in flight the return of the network call
\* it waits for is never blocked; its promise has settled exactly when it is
\* done; and every step that changes a request in flight takes it strictly
\* closer to its settlement (first attempt, renewal call, retry, settled; a
\* page load ends it).  So once each call returns, the promise settles after
\* at most three returns, whatever the responses are.
C14_EveryDispatchTerminates ==
    /\ [](\A r \in Requests :
             /\ Req(r).sends <= 2
             /\ Req(r).renewals <= 1
             /\ Rank(Req(r)) > 0 => ENABLED Returns(r)
             /\ Req(r).pc = "done" <=> Req(r).outcome.settled # "pending")
    /\ [][\A r \in Requests :
            (Rank(requests[r]) > 0 /\ requests'[r] # requests[r])
               => Rank(requests'[r]) < Rank(requests[r])
         ]_vars

\* Every request went through 401, renewal, retry and a second 401, and has
\* settled after its second dispatch.
C14_Witness ==
    \A r \in Requests :
        /\ Req(r).pc = "done"
        /\ Req(r).sends = 2
        /\ Req(r).renewals = 1
        /\ Req(r).outcome = Rejected("retry", 401)

\* ---------------------------------------------------------------- C15
\* C15: logout(), from any state of the session, leaves storage with neither
\* credential, user null and isAuthenticated false; called right after
\* another logout() it changes nothing of that state.
C15_LogoutClearsSession ==
    [][CallLogout =>
         /\ getItem(localStorage', "access_token") = Null
         /\ getItem(localStorage', "refresh_token") = Null
         /\ user' = Null
         /\ ~isAuthenticated'
         /\ call.name = "logout"
               => /\ UNCHANGED <<localStorage, user, isAuthenticated>>
                  /\ call'.again
      ]_vars

\* logout() has been called twice in a row: the session is cleared.
C15_Witness ==
    /\ call.name = "logout"
    /\ call.again
    /\ localStorage = NoData
    /\ user = Null
    /\ ~isAuthenticated

\* ---------------------------------------------------------------- C16
\* C16: login(access, refresh), for any two token strings, leaves access
\* under 'access_token' and refresh under 'refresh_token' and sets
\* isAuthenticated; these are the keys the gateway reads: the next request
\* carries Bearer <access> (no header for the empty string) and the response
\* handler would present refresh to the renewal endpoint.
C16_LoginStoresUnderGatewayKeys ==
    [][\A access, refresh \in StoreTokens :
         CallLogin(access, refresh) =>
            /\ getItem(localStorage', "access_token") = access
            /\ getItem(localStorage', "refresh_token") = refresh
            /\ isAuthenticated'
            /\ user' = user
            /\ \A url \in Urls :
                  RequestInterceptor(NewConfig(url), localStorage').Authorization =
                      IF access # "" THEN "Bearer " \o access ELSE Null
      ]_vars

\* login was called with two strings that are no issued pair: both are
\* stored as given and the session is authenticated.
C16_Witness ==
    /\ call.name = "login"
    /\ call.access = "A2"
    /\ call.refresh = "R1"
    /\ localStorage = [access_token |-> "A2", refresh_token |-> "R1"]
    /\ isAuthenticated

\* ---------------------------------------------------------------- C17
\* C17: setUser(u) sets the stored profile to u and isAuthenticated to true,
\* and leaves both credentials in storage as they were.
C17_SetUserLeavesStorage ==
    [][\A u \in Users :
         CallSetUser(u) =>
            /\ user' = u
            /\ isAuthenticated'
            /\ localStorage' = localStorage
      ]_vars

\* setUser was called while storage held no credential (after a logout):
\* the profile is stored and the session is marked authenticated.
C17_Witness ==
    /\ call.name = "setUser"
    /\ call.user = "alice"
    /\ user = "alice"
    /\ isAuthenticated
    /\ localStorage = NoData

\* ---------------------------------------------------------------- C18
\* C18: addToast(message, type) and each of toast.success, toast.error,
\* toast.warning and toast.info append exactly one toast at the end of the
\* list, with the given message, the given or the helper's type ('info' when
\* addToast is given none) and an id no toast of the list has; the toasts
\* already in the list stay as they were, in the same order.
C18_AddAppendsOne ==
    [][LET n == Len(toasts)
           Appends(message, type) ==
               /\ Len(toasts') = n + 1
               /\ SubSeq(toasts', 1, n) = toasts
               /\ toasts'[n + 1].message = message
               /\ toasts'[n + 1].type = type
               /\ \A i \in 1..n : toasts[i].id # toasts'[n + 1].id
       IN  \A message \in Messages, duration \in StayOrDefault :
              /\ \A type \in ToastTypes :
                    AddToast(message, type, duration) => Appends(message, type)
              /\ AddToast(message, "undefined", duration) => Appends(message, "info")
              /\ \A kind \in ToastTypes :
                    ToastHelper(kind, message, duration) => Appends(message, kind)
      ]_vars

\* Three toasts were added one after the other and are listed in that order.
C18_Witness ==
    /\ Len(toasts) = 3
    /\ toasts[1].id = 1 /\ toasts[1].type = "success" /\ toasts[1].message = "saved"
    /\ toasts[2].id = 2 /\ toasts[2].type = "error" /\ toasts[2].message = "failed"
    /\ toasts[2].duration = ErrorDuration
    /\ toasts[3].id = 3 /\ toasts[3].type = "info" /\ toasts[3].message = "saved"

\* ---------------------------------------------------------------- C19
\* C19: removeToast(id) takes the toast with that id, and nothing else, out
\* of the list: the toasts before it and the toasts after it stay, in their
\* order.  When no toast of the list has the id, the list stays as it is.
C19_RemoveByIdKeepsOrder ==
    [][\A id \in ToastIds :
         RemoveToast(id) =>
            LET at == {i \in 1..Len(toasts) : toasts[i].id = id}
            IN  IF at = {}
                THEN toasts' = toasts
                ELSE \E i \in at :
                        /\ at = {i}
                        /\ toasts' = SubSeq(toasts, 1, i - 1)
                                        \o SubSeq(toasts, i + 1, Len(toasts))
      ]_vars

\* Of three toasts the second has been removed by removeToast (its timer is
\* still pending): the first and the third remain, in that order.
C19_Witness ==
    /\ nextId = 4
    /\ Len(toasts) = 2
    /\ toasts[1].id = 1
    /\ toasts[2].id = 3
    /\ 2 \in timers

\* ---------------------------------------------------------------- C20
\* C20: when every timer that is due runs, a toast added with a duration
\* greater than 0 is eventually out of the list, with no call of removeToast
\* needed; a toast is in the list with a timer pending exactly when its
\* duration is greater than 0, and a toast with duration 0 leaves the list
\* only in a step of removeToast for its id.
C20_TimedToastsExpire ==
    /\ \A id \in ToastIds :
          (\E i \in DOMAIN toasts : toasts[i].id = id /\ toasts[i].duration > 0)
             ~> ~(\E i \in DOMAIN toasts : toasts[i].id = id)
    /\ [](\A i \in DOMAIN toasts : toasts[i].duration > 0 <=> toasts[i].id \in timers)
    /\ [][\A id \in ToastIds :
            (/\ \E i \in DOMAIN toasts : toasts[i].id = id /\ toasts[i].duration = 0
             /\ ~(\E i \in DOMAIN toasts' : toasts'[i].id = id))
               => RemoveToast(id)
         ]_vars

\* Three toasts were added; the timers of the first and the third have run
\* and no timer is pending; the second, added with duration 0, is still
\* listed.
C20_Witness ==
    /\ nextId = 4
    /\ timers = {}
    /\ Len(toasts) = 1
    /\ toasts[1].id = 2
    /\ toasts[1].duration = 0

\* ---------------------------------------------------------------- C21
\* C21: a protected page is on screen only while isAuthenticated is true
\* (and then it is the page of the current path); while the session is
\* unauthenticated neither the path nor the screen is a protected one; and a
\* visitor who asks for a protected path while unauthenticated ends on
\* /login with the login page on screen.
C21_ProtectedOnlyWhileAuthenticated ==
    /\ [](/\ screen \in ProtectedPaths => (isAuthenticated /\ route = screen)
          /\ ~isAuthenticated => (route \notin ProtectedPaths /\ screen \notin ProtectedPaths)
          /\ (~isAuthenticated /\ asked \in ProtectedPaths)
                => (route = "/login" /\ screen = "Login"))
    /\ [][\A path \in ProtectedPaths :
            (Visit(path) /\ ~isAuthenticated)
               => (route' = "/login" /\ screen' = "Login")
         ]_vars

\* A visitor without a session asked for the settings page and is on the
\* login page.
C21_Witness ==
    /\ ~isAuthenticated
    /\ asked = "/settings"
    /\ route = "/login"
    /\ screen = "Login"

\* ---------------------------------------------------------------- C22
\* C22: once logout has left storage empty and the session unauthenticated,
\* only a new login puts credentials into storage again: no completion of a
\* request already in flight (a renewal response among them) does.
C22_NoWriteBackAfterLogout ==
    [][(localStorage = NoData /\ ~isAuthenticated /\ localStorage' # NoData)
          => \E data \in TokenResponses : Login(data)
      ]_vars

\* ---------------------------------------------------------------- C23
\* C23: the retry goes on the wire with the bearer header of the access
\* credential its own renewal response carried, and keeps that header while
\* it is in flight, whatever other requests renew and whether or not the
\* user logs out or in meanwhile.
C23_RetryCarriesOwnCredential ==
    [][\A r \in Requests :
         LET req == requests[r]
             req2 == requests'[r]
         IN  /\ (req.pc = "renewing" /\ req2.pc = "resent")
                    => /\ req2.resp \in TokenResponses
                       /\ req2.config.Authorization = Bearer(req2.resp.access_token)
             /\ (req.pc = "resent" /\ req2.pc = "resent")
                    => /\ req2.config = req.config
                       /\ req2.resp = req.resp
      ]_vars

\* Two retries are in flight, each with the credential of its own renewal:
\* one carries A2 although storage holds the pair the other renewal stored
\* after it.
C23_Witness ==
    \E r, q \in Requests :
        /\ Req(r).pc = "resent"
        /\ Req(r).resp = TokenResponse(2)
        /\ Req(r).config.Authorization = "Bearer A2"
        /\ Req(q).pc = "resent"
        /\ Req(q).resp = TokenResponse(1)
        /\ Req(q).config.Authorization = "Bearer A1"
        /\ localStorage = TokenResponse(1)

\* ---------------------------------------------------------------- C24
\* C24: starting from a storage that holds both credentials or neither, in
\* every reachable state storage holds no credential at all or the access
\* and the refresh credential of one and the same response (of a login or of
\* a renewal).
C24_StoredPairIssuedTogether ==
    localStorage = NoData \/ localStorage \in TokenResponses

\* Renewals and a login interleaved: a retry is in flight after a renewal
\* that issued the first pair, another request's renewal failed and emptied
\* storage, and storage now holds the second pair, whole.
C24_Witness ==
    \E r, q \in Requests :
        /\ Req(r).pc = "resent"
        /\ Req(r).resp = TokenResponse(1)
        /\ Req(q).pc = "done"
        /\ Req(q).renewals = 1
        /\ Req(q).navigated
        /\ localStorage = TokenResponse(2)

\* ---------------------------------------------------------------- C25
\* C25: whenever the Compose page hands a post to the mutation (by Publish
\* Now, Schedule Post or Save as Draft), the caption is not blank, at least
\* one account is selected, and the caption is no longer than the smallest
\* character limit among the platforms of the selected accounts.
C25_NeverSubmitsInvalidPost ==
    [][(compose'.pending /\ ~compose.pending)
          => /\ ~IsBlank(compose'.post.caption)
             /\ compose'.post.account_ids # {}
             /\ compose'.post.caption.length <= minCharLimit(compose'.post.account_ids)
      ]_vars

\* ---------------------------------------------------------------- C26
\* C26: in the bulk-schedule wizard, whatever the order of uploads, confirms,
\* restarts and completions: the preview step holds a preview response, the
\* results step holds results, the step leaves 'upload' only by a successful
\* upload (which shows the preview), it reaches 'results' only by a
\* successful confirm, and a confirm request holds valid entries only.
C26_BulkStepsInOrder ==
    [][/\ (bulk.step = "upload" /\ bulk'.step # "upload")
            => \E data \in BulkPreviewResponses : UploadSucceeded(data)
       /\ (bulk.step # "results" /\ bulk'.step = "results") => ConfirmSucceeded
       /\ bulk'.step = "preview" => bulk'.preview # Nothing
       /\ bulk'.step = "results" => bulk'.results # Nothing
       /\ \A payload \in bulk'.confirm : \A e \in payload : e.is_valid
      ]_vars

\* ---------------------------------------------------------------- C27
\* C27: in the strategy wizard the step stays within 0..3; it goes from 0 to 1
\* only with the business information valid and from 1 to 2 only with the
\* platforms, tone and frequency valid; it reaches 3 only when a generation
\* started at step 2 succeeds, and a result is held whenever it is 3; Back
\* never changes step 0 or step 3; Start Over gives step 0, an empty form and
\* no result.
C27_StrategyStepsInOrder ==
    [][/\ strategy'.step \in 0..3
       /\ strategy'.step = 3 => strategy'.result # Nothing
       /\ (strategy.step = 0 /\ strategy'.step # 0)
            => strategy'.step = 1 /\ isStep1Valid(strategy.form)
       /\ (strategy.step = 1 /\ strategy'.step > 1)
            => strategy'.step = 2 /\ isStep2Valid(strategy.form)
       /\ (strategy.mutation = Nothing /\ strategy'.mutation # Nothing)
            => strategy.step = 2 /\ strategy'.step = 2
       /\ (strategy.step # 3 /\ strategy'.step = 3)
            => /\ strategy.step = 2
               /\ strategy.mutation # Nothing
               /\ \E data \in StrategyResponses : StrategyGenerated(data)
       /\ handleBack => strategy.step \notin {0, 3}
       /\ strategy'.step < strategy.step
            => \/ handleStartOver
               \/ strategy.step \in {1, 2} /\ strategy'.step = strategy.step - 1
       /\ handleStartOver
            => /\ strategy'.step = 0
               /\ strategy'.form = EmptyForm
               /\ strategy'.result = Nothing
      ]_vars

\* A strategy shown after the three steps were filled in, pillars included.
C27_Witness ==
    /\ strategy.step = 3
    /\ strategy.result # Nothing
    /\ strategy.form.content_pillars # {}
    /\ isStep1Valid(strategy.form)
    /\ isStep2Valid(strategy.form)

\* ---------------------------------------------------------------- C28
\* C28: the auto-save of the Link-in-Bio page is debounced: at most one save
\* timer is pending; every change of the draft or of the selected page cancels
\* the timers that were pending; a save is sent only while the draft differs
\* from the values of the selected page as the query holds them; what is sent
\* is the current draft, for the selected page, and that draft was edited
\* under this very page.
C28_DebouncedAutoSave ==
    [][/\ Cardinality(bio'.timers) <= 1
       /\ (bio'.draft # bio.draft \/ bio'.selectedPageId # bio.selectedPageId)
            => \A t \in bio.timers : \A u \in bio'.timers : u.id # t.id
       /\ (\E t \in bio.timers : SaveTimerFires(t))
            => /\ selectedPage(bio) # Nothing
               /\ bio.draft # draftFromPage(TheValue(selectedPage(bio)))
               /\ bio'.sent = Held([page |-> bio.selectedPageId, data |-> bio.draft])
               /\ bio.editedFor = bio.selectedPageId
      ]_vars

\* A draft edited under page1 was saved for page1, after page2 had been
\* selected and edited before.
C28_Witness ==
    /\ bio.sent = Held([page |-> "page1", data |-> [title |-> "two"]])
    /\ bio.selectedPageId = "page1"
    /\ bio.timers = {}
    /\ bio.lastTimer = 3

\* ---------------------------------------------------------------- C29
\* C29: the timer of a toast and a manual removeToast of the same toast may
\* run in either order.  Whichever runs, for whatever id: the list afterwards
\* is the list before without the toast of that id, the others in their order;
\* so the one that runs second, finding the toast gone, changes nothing.
C29_TimerAndManualRemoveCommute ==
    [][\A id \in ToastIds :
          (RemoveToast(id) \/ TimerFires(id))
            => LET keep == {i \in DOMAIN toasts : toasts[i].id # id}
               IN  /\ Len(toasts') = Cardinality(keep)
                   /\ \A i \in keep :
                        toasts'[Cardinality({j \in keep : j <= i})] = toasts[i]
                   /\ (keep = DOMAIN toasts) => toasts' = toasts
      ]_vars

\* The second of three toasts was removed by hand and its timer is still to
\* fire; the first and the third are listed in their order.
C29_Witness ==
    /\ Len(toasts) = 2
    /\ toasts[1].id = 1
    /\ toasts[2].id = 3
    /\ 2 \in timers

====
